---- MODULE Spec2Model ----
(***************************************************************************)
(* chrjson-split: a single-pass router that splits a JSONL file into one   *)
(* output file per chromosome name plus a catch-all file (src/main.go).    *)
(*                                                                         *)
(* The model follows main() and ChromosomeProcessor.ProcessFile step by    *)
(* step.  Bytes are one-character strings, a line or a file content is a   *)
(* sequence of bytes.  The operating system is the environment: it decides *)
(* whether a file can be created or opened and how many bytes a write()    *)
(* accepts before it fails.  The library calls of the source (bufio.Writer,*)
(* bufio.Scanner with the default ScanLines split, os.Create) are modelled *)
(* by what they do at the call sites.                                      *)
(***************************************************************************)
EXTENDS Integers, Sequences, FiniteSets, TLC

\* ------------------------------------------------------------------ bounds
\* number of input lines the scanner is offered
MaxLines == 3
\* a failing write() accepts 0..MaxPartial bytes before it reports the error
MaxPartial == 1
\* size of each bufio.Writer (main.go:60 uses 4 MiB; scaled down, in bytes)
WriterSize == 2
\* scanner.Buffer maximum (main.go:104 uses 10 MiB; scaled down, in bytes)
MaxTokenSize == 4

\* ------------------------------------------------------------- constants
UnknownChr == "unknown_chr"

LF == "\n"
CR == "\r"

\* names that may be given with --chr-names (parseChromosomeNames keeps any
\* non-empty trimmed name, repeated names and the sentinel's name included)
CategoryNames == {"chr1", "chr2", UnknownChr}

\* the command lines of the model: --prefix and the names parsed from
\* --chr-names (none, one, two, a repeated name, the sentinel's own name)
Configs ==
  { [prefix |-> "out", names |-> <<"chr1", "chr2">>],
    [prefix |-> "out", names |-> <<"chr1", "chr1">>],
    [prefix |-> "out", names |-> <<"chr2">>],
    [prefix |-> "output", names |-> <<>>],
    [prefix |-> "output", names |-> <<UnknownChr, "chr1">>] }

\* the destination files that exist before the run
Preexisting == {"chr1", UnknownChr}

\* content a destination file may hold from an earlier run
Stale == <<"o", LF>>

\* a record with an undeclared key that does not fit into a writer's buffer
BigRecord == [i \in 1..(WriterSize + 1) |-> IF i = 1 THEN "z" ELSE "x"]

\* a line that does not fit into the scanner's buffer
OverLong == [i \in 1..MaxTokenSize |-> IF i = 1 THEN "a" ELSE "x"]

\* the lines an input file is made of, without their newline
RawLines == { <<>>, <<CR>>, <<"a">>, <<"b">>, <<"x">>, BigRecord, OverLong }

\* what the scanner is offered next: a line with its newline, or a last
\* line that ends at end of file
Chunks == {Append(l, LF) : l \in RawLines} \cup {<<"a">>, <<"x", CR>>}

\* ------------------------------------------------------------- sequences
Min(a, b) == IF a <= b THEN a ELSE b

Drop(s, n) == SubSeq(s, n + 1, Len(s))

Take(s, n) == SubSeq(s, 1, n)

IsPrefix(s, t) == Len(s) <= Len(t) /\ Take(t, Len(s)) = s

Range(s) == {s[i] : i \in 1..Len(s)}

\* ------------------------------------------------- os.File, bufio.Writer
\* mutant of FileName: the extension is not the one of the format string
FileNameJson(p, chr) == p \o "_" \o chr \o ".json"

\* filename := fmt.Sprintf("%s_%s.jsonl", cp.prefix, chr)
FileName(p, chr) == p \o "_" \o chr \o ".jsonl"

\* mutant of OsCreate: an existing file is opened without being truncated
OsCreateKeep(d, name) == IF name \in DOMAIN d THEN d ELSE (name :> <<>>) @@ d

\* os.Create(filename): the file exists afterwards and is empty
OsCreate(d, name) == (name :> <<>>) @@ d

\* write(2) of p when the file accepts q more bytes: the bytes written
OsWrite(p, q) == Take(p, Min(Len(p), q))

\* a quota that no write of the model exhausts
NoLimit == MaxTokenSize + WriterSize + 1

\* what the environment lets one file accept during one step
Quotas == (0..MaxPartial) \cup {NoLimit}

\* bufio.NewWriterSize(file, ...) over handle h
NewWriter(h) == [h |-> h, buf |-> <<>>, err |-> FALSE]

\* (*bufio.Writer).Available
Available(w) == WriterSize - Len(w.buf)

\* mutant of BufAppend: the new bytes are put in front of the buffered ones
BufPrepend(buf, p) == p \o buf

\* copy(b.buf[b.n:], p); b.n += n
BufAppend(buf, p) == buf \o p

\* (*bufio.Writer).Flush with q bytes accepted by the file: the writer after
\* it, the bytes that reached the file, the quota left, the error
Flush(w, q) ==
  IF w.err THEN [w |-> w, out |-> <<>>, q |-> q, err |-> TRUE]
  ELSE IF Len(w.buf) = 0 THEN [w |-> w, out |-> <<>>, q |-> q, err |-> FALSE]
  ELSE LET done == OsWrite(w.buf, q)
           n == Len(done)
       IN  IF n < Len(w.buf)
             THEN [w |-> [w EXCEPT !.buf = Drop(@, n), !.err = TRUE],
                   out |-> done, q |-> q - n, err |-> TRUE]
             ELSE [w |-> [w EXCEPT !.buf = <<>>],
                   out |-> done, q |-> q - n, err |-> FALSE]

\* the loop of (*bufio.Writer).Write: out collects what reached the file
RECURSIVE WriteLoop(_, _, _, _)
WriteLoop(w, p, q, out) ==
  IF Len(p) > Available(w) /\ ~w.err
    THEN IF Len(w.buf) = 0
           THEN \* large write, empty buffer: written directly from p
                LET done == OsWrite(p, q)
                    n == Len(done)
                IN  WriteLoop([w EXCEPT !.err = n < Len(p)], Drop(p, n),
                              q - n, out \o done)
           ELSE LET n == Min(Len(p), Available(w))
                    f == Flush([w EXCEPT !.buf = BufAppend(@, Take(p, n))], q)
                IN  WriteLoop(f.w, Drop(p, n), f.q, out \o f.out)
    ELSE IF w.err
           THEN [w |-> w, out |-> out, q |-> q, err |-> TRUE]
           ELSE [w |-> [w EXCEPT !.buf = BufAppend(@, p)],
                 out |-> out, q |-> q, err |-> FALSE]

\* writer.Write(line)
Write(w, p, q) == WriteLoop(w, p, q, <<>>)

\* writer.WriteByte(c)
WriteByte(w, c, q) ==
  IF w.err THEN [w |-> w, out |-> <<>>, q |-> q, err |-> TRUE]
  ELSE LET f == IF Available(w) <= 0 THEN Flush(w, q)
                ELSE [w |-> w, out |-> <<>>, q |-> q, err |-> FALSE]
       IN  IF f.err THEN f
           ELSE [w |-> [f.w EXCEPT !.buf = BufAppend(@, <<c>>)],
                 out |-> f.out, q |-> f.q, err |-> FALSE]

\* -------------------------------------------------------- bufio.Scanner
\* dropCR of bufio.ScanLines
DropCR(d) == IF Len(d) > 0 /\ d[Len(d)] = CR THEN Take(d, Len(d) - 1) ELSE d

\* the bytes of a chunk before its newline
RawLine(chunk) ==
  IF Len(chunk) > 0 /\ chunk[Len(chunk)] = LF THEN Take(chunk, Len(chunk) - 1)
  ELSE chunk

\* scanner.Bytes() after a successful scanner.Scan() (split: ScanLines)
ScanLines(chunk) == DropCR(RawLine(chunk))

\* mutant of TooLong: the scanner's buffer has no maximum
TooLongNever(chunk) == FALSE

\* scanner.Scan() gives up with ErrTooLong: the buffer, grown to its
\* maximum, is full and holds no newline
TooLong(chunk) == Len(RawLine(chunk)) >= MaxTokenSize

\* gjson.GetBytes(line, cp.chrFieldName): the decoding of the record is
\* represented by its first byte
GjsonGet(line) ==
  IF Len(line) = 0 THEN [exists |-> FALSE, str |-> ""]
  ELSE CASE line[1] = "a" -> [exists |-> TRUE, str |-> "chr1"]
         [] line[1] = "b" -> [exists |-> TRUE, str |-> "chr2"]
         [] line[1] = "z" -> [exists |-> TRUE, str |-> "chrZZZ"]
         [] OTHER -> [exists |-> FALSE, str |-> ""]

\* ----------------------------------------------------------------- state
VARIABLES
  pc,              \* position in main / ProcessFile
  prefix,          \* cp.prefix
  chrNames,        \* cp.chrNames
  inputState,      \* the input path: "missing", "unreadable" or "ok"
  inputHandle,     \* the input file: "none", "open" or "closed"
  disk,            \* file name -> content, for the files that exist
  handles,         \* the os.File values returned by os.Create, in order
  outputFiles,     \* cp.outputFiles: category -> index into handles
  outputWriters,   \* cp.outputWriters: category -> bufio.Writer
  input,           \* the chunks the scanner has consumed so far
  atEOF,           \* the last chunk ended at end of file
  lineNum,         \* lineNum of ProcessFile
  processedCounts, \* processedCounts of ProcessFile
  result,          \* what ProcessFile (or main) reports
  closeCalls,      \* number of calls of CloseAllFiles
  run,             \* 1 in the first run of the program, 2 in a second one
  firstInput,      \* in a second run: the input of the first run
  firstDisk        \* in a second run: the files as the first run left them

vars ==
  << pc, prefix, chrNames, inputState, inputHandle, disk, handles,
     outputFiles, outputWriters, input, atEOF, lineNum, processedCounts,
     result, closeCalls, run, firstInput, firstDisk >>

\* what a run of the program does not change
twice == << run, firstInput, firstDisk >>

\* cp.chrSet, built by NewChromosomeProcessor
chrSet == Range(chrNames)

\* the empty map
EmptyMap == [x \in {} |-> 0]

Running == [kind |-> "running", line |-> 0]

Init ==
  /\ pc = "main"
  /\ \E cfg \in Configs : prefix = cfg.prefix /\ chrNames = cfg.names
  /\ inputState \in {"missing", "unreadable", "ok"}
  /\ inputHandle = "none"
  /\ disk = [n \in {FileName(prefix, c) : c \in Preexisting} |-> Stale]
  /\ handles = <<>>
  /\ outputFiles = EmptyMap
  /\ outputWriters = EmptyMap
  /\ input = <<>>
  /\ atEOF = FALSE
  /\ lineNum = 0
  /\ processedCounts = [c \in CategoryNames |-> 0]
  /\ result = Running
  /\ closeCalls = 0
  /\ run = 1
  /\ firstInput = <<>>
  /\ firstDisk = EmptyMap

\* main: the os.Stat check of the input path
Main ==
  /\ pc = "main"
  /\ UNCHANGED twice
  /\ IF inputState = "missing"
       THEN /\ pc' = "exit"
            /\ result' = [kind |-> "missing", line |-> 0]
       ELSE /\ pc' = "init"
            /\ UNCHANGED result
  /\ UNCHANGED << prefix, chrNames, inputState, inputHandle, disk, handles,
                  outputFiles, outputWriters, input, atEOF, lineNum,
                  processedCounts, closeCalls >>

\* the output side of the processor and of the file system, as one value
Out ==
  [disk |-> disk, handles |-> handles, files |-> outputFiles,
   writers |-> outputWriters]

SetOut(o) ==
  /\ disk' = o.disk
  /\ handles' = o.handles
  /\ outputFiles' = o.files
  /\ outputWriters' = o.writers

\* the name of the file a writer writes to, and what that file accepts
NameOf(o, w) == o.handles[w.h].name

Accepts(o, w, q) == IF o.handles[w.h].open THEN q ELSE 0

\* FlushAllWriters: writer.Flush() for every entry of cp.outputWriters, the
\* returned errors dropped; qf[c] is what the file of entry c accepts
FlushAllWriters(o, qf) ==
  LET fl(c) == Flush(o.writers[c], Accepts(o, o.writers[c], qf[c]))
      of(n) == {c \in DOMAIN o.writers : NameOf(o, o.writers[c]) = n}
  IN  [o EXCEPT
         !.writers = [c \in DOMAIN o.writers |-> fl(c).w],
         !.disk = [n \in DOMAIN o.disk |->
                     IF of(n) = {} THEN o.disk[n]
                     ELSE o.disk[n] \o fl(CHOOSE c \in of(n) : TRUE).out]]

\* the loop of CloseAllFiles: file.Close() for every entry of cp.outputFiles
CloseFiles(o) ==
  [o EXCEPT !.handles =
     [i \in DOMAIN o.handles |->
        IF \E c \in DOMAIN o.files : o.files[c] = i
          THEN [o.handles[i] EXCEPT !.open = FALSE]
          ELSE o.handles[i]]]

\* CloseAllFiles
CloseAllFiles(o, qf) == CloseFiles(FlushAllWriters(o, qf))

\* mutant of AllChrs: the sentinel is not appended
AllChrsDeclared(names) == names

\* allChrs := append(cp.chrNames, UnknownChr)
AllChrs(names) == Append(names, UnknownChr)

\* one round of the loop of InitializeOutputFiles for category chr
CreateOne(o, p, chr) ==
  LET name == FileName(p, chr)
      h == Len(o.handles) + 1
  IN  [disk |-> OsCreate(o.disk, name),
       handles |-> Append(o.handles, [name |-> name, open |-> TRUE]),
       files |-> (chr :> h) @@ o.files,
       writers |-> (chr :> NewWriter(h)) @@ o.writers]

\* the loop of InitializeOutputFiles from index i on; os.Create fails for
\* the k-th name (k = 0: for none)
RECURSIVE CreateFrom(_, _, _, _, _)
CreateFrom(o, p, all, i, k) ==
  IF i > Len(all) THEN [o |-> o, err |-> FALSE]
  ELSE IF i = k THEN [o |-> o, err |-> TRUE]
  ELSE CreateFrom(CreateOne(o, p, all[i]), p, all, i + 1, k)

\* every file accepts everything
FullQuota == [c \in CategoryNames |-> NoLimit]

\* what the files accept during a flush of all writers: everything, or one
\* of them fails after 0..MaxPartial bytes
QuotaMaps ==
  {FullQuota} \cup
  {[FullQuota EXCEPT ![c] = q] : c \in CategoryNames, q \in 0..MaxPartial}

\* InitializeOutputFiles, called first by ProcessFile
InitializeOutputFiles ==
  /\ pc = "init"
  /\ UNCHANGED twice
  /\ \E k \in 0..Len(AllChrs(chrNames)), qf \in QuotaMaps :
       LET r == CreateFrom(Out, prefix, AllChrs(chrNames), 1, k)
       IN  IF r.err
             THEN /\ SetOut(CloseAllFiles(r.o, qf))
                  /\ closeCalls' = closeCalls + 1
                  /\ result' = [kind |-> "create", line |-> 0]
                  /\ pc' = "exit"
             ELSE /\ SetOut(r.o)
                  /\ pc' = "open"
                  /\ UNCHANGED << closeCalls, result >>
  /\ UNCHANGED << prefix, chrNames, inputState, inputHandle, input, atEOF,
                  lineNum, processedCounts >>

\* file, err := os.Open(cp.inputFile)
OpenInput ==
  /\ pc = "open"
  /\ UNCHANGED twice
  /\ IF inputState = "ok"
       THEN /\ inputHandle' = "open"
            /\ pc' = "scan"
            /\ UNCHANGED result
       ELSE /\ result' = [kind |-> "open", line |-> 0]
            /\ pc' = "deferred"
            /\ UNCHANGED inputHandle
  /\ UNCHANGED << prefix, chrNames, inputState, disk, handles, outputFiles,
                  outputWriters, input, atEOF, lineNum, processedCounts,
                  closeCalls >>

\* mutant of IsBlank: no line is skipped
IsBlankNever(line) == FALSE

\* if len(line) == 0 { continue }
IsBlank(line) == Len(line) = 0

\* ExtractChromosome
ExtractChromosome(line) ==
  LET res == GjsonGet(line)
  IN  IF ~res.exists THEN [chr |-> "", found |-> FALSE]
      ELSE [chr |-> res.str, found |-> TRUE]

\* mutant of RouteKey: every record goes to the catch-all
RouteKeyUnknown(chr, found, set) == UnknownChr

\* outputChr := UnknownChr; if found && cp.chrSet[chr] { outputChr = chr }
RouteKey(chr, found, set) == IF found /\ chr \in set THEN chr ELSE UnknownChr

\* mutant of GetOutputWriter: no fallback to the catch-all entry
GetOutputWriterDirect(writers, chr) == chr

\* GetOutputWriter: the key of the map entry whose writer is returned
GetOutputWriter(writers, chr) ==
  IF chr \in DOMAIN writers THEN chr ELSE UnknownChr

\* mutant of WriteFailed: the errors of the two writes are not looked at
WriteFailedNever(r) == FALSE

\* the error checks after writer.Write and writer.WriteByte
WriteFailed(r) == r.err

\* processedCounts[outputChr]++ (the variant of the loop that counts)
Counted(counts, key) == [counts EXCEPT ![key] = @ + 1]

\* the body of the scan loop for a non-blank line: the writer chosen, what
\* reached its file, and which of the two writes failed ("" when none did)
WriteLine(writers, set, line, q) ==
  LET e == ExtractChromosome(line)
      key == GetOutputWriter(writers, RouteKey(e.chr, e.found, set))
      r1 == Write(writers[key], line, q)
      r2 == WriteByte(r1.w, LF, r1.q)
  IN  IF WriteFailed(r1)
        THEN [key |-> key, w |-> r1.w, out |-> r1.out, fail |-> "write"]
      ELSE IF WriteFailed(r2)
        THEN [key |-> key, w |-> r2.w, out |-> r1.out \o r2.out,
              fail |-> "newline"]
      ELSE [key |-> key, w |-> r2.w, out |-> r1.out \o r2.out, fail |-> ""]

\* whether the scanner can be offered another chunk
MoreInput ==
  /\ ~atEOF
  /\ Len(input) < (IF run = 1 THEN MaxLines ELSE Len(firstInput))

\* what the scanner can be offered next: any chunk, and in a second run what
\* the same input file holds next
NextChunks == IF run = 1 THEN Chunks ELSE {firstInput[Len(input) + 1]}

\* whether the input can end here
InputEnds == run = 1 \/ Len(input) = Len(firstInput)

\* scanner.Scan() returns true: one round of the loop of ProcessFile
ScanLine ==
  /\ pc = "scan"
  /\ UNCHANGED twice
  /\ MoreInput
  /\ \E chunk \in NextChunks, q \in Quotas :
       /\ ~TooLong(chunk)
       /\ input' = Append(input, chunk)
       /\ atEOF' = (chunk[Len(chunk)] # LF)
       /\ lineNum' = lineNum + 1
       /\ LET line == ScanLines(chunk)
          IN  IF IsBlank(line)
                THEN /\ pc' = "scan"
                     /\ UNCHANGED << disk, handles, outputFiles, outputWriters,
                                     processedCounts, result >>
              ELSE IF UnknownChr \notin DOMAIN outputWriters
                THEN \* a nil *bufio.Writer is dereferenced
                     /\ result' = [kind |-> "panic", line |-> lineNum']
                     /\ pc' = "deferred"
                     /\ UNCHANGED << disk, handles, outputFiles, outputWriters,
                                     processedCounts >>
              ELSE LET r == WriteLine(outputWriters, chrSet, line, q)
                       w == outputWriters[r.key]
                       name == NameOf(Out, w)
                   IN  /\ outputWriters' = [outputWriters EXCEPT ![r.key] = r.w]
                       /\ disk' = [disk EXCEPT ![name] = @ \o r.out]
                       /\ UNCHANGED << handles, outputFiles >>
                       /\ IF r.fail # ""
                            THEN /\ result' = [kind |-> r.fail, line |-> lineNum']
                                 /\ pc' = "deferred"
                                 /\ UNCHANGED processedCounts
                            ELSE /\ processedCounts' =
                                      Counted(processedCounts, r.key)
                                 /\ pc' = "scan"
                                 /\ UNCHANGED result
  /\ UNCHANGED << prefix, chrNames, inputState, inputHandle, closeCalls >>

\* scanner.Scan() returns false and scanner.Err() is not nil: the next line
\* is too long, or reading the input failed
ScanFail ==
  /\ pc = "scan"
  /\ UNCHANGED twice
  /\ \/ /\ MoreInput
        /\ \E chunk \in NextChunks :
             /\ TooLong(chunk)
             /\ input' = Append(input, chunk)
             /\ atEOF' = (chunk[Len(chunk)] # LF)
     \/ UNCHANGED << input, atEOF >>
  /\ result' = [kind |-> "scan", line |-> lineNum]
  /\ pc' = "deferred"
  /\ UNCHANGED << prefix, chrNames, inputState, inputHandle, disk, handles,
                  outputFiles, outputWriters, lineNum, processedCounts,
                  closeCalls >>

\* scanner.Scan() returns false at end of input: cp.FlushAllWriters();
\* return nil
ScanEOF ==
  /\ pc = "scan"
  /\ UNCHANGED twice
  /\ InputEnds
  /\ \E qf \in QuotaMaps : SetOut(FlushAllWriters(Out, qf))
  /\ result' = [kind |-> "nil", line |-> 0]
  /\ pc' = "deferred"
  /\ UNCHANGED << prefix, chrNames, inputState, inputHandle, input, atEOF,
                  lineNum, processedCounts, closeCalls >>

\* the deferred calls of ProcessFile: file.Close(), then cp.CloseAllFiles()
DeferredClose ==
  /\ pc = "deferred"
  /\ UNCHANGED twice
  /\ inputHandle' = IF inputHandle = "open" THEN "closed" ELSE inputHandle
  /\ \E qf \in QuotaMaps : SetOut(CloseAllFiles(Out, qf))
  /\ closeCalls' = closeCalls + 1
  /\ pc' = "exit"
  /\ UNCHANGED << prefix, chrNames, inputState, input, atEOF, lineNum,
                  processedCounts, result >>

Next ==
  \/ Main
  \/ InitializeOutputFiles
  \/ OpenInput
  \/ ScanLine
  \/ ScanFail
  \/ ScanEOF
  \/ DeferredClose

Spec == Init /\ [][Next]_vars

\* the program is started again after a run that ended with exit code 0,
\* with the same command line and the same input file: a new process, a new
\* ChromosomeProcessor, the files as the first run left them
Rerun ==
  /\ pc = "exit"
  /\ run = 1
  /\ result.kind = "nil"
  /\ run' = 2
  /\ firstInput' = input
  /\ firstDisk' = disk
  /\ pc' = "main"
  /\ inputHandle' = "none"
  /\ handles' = <<>>
  /\ outputFiles' = EmptyMap
  /\ outputWriters' = EmptyMap
  /\ input' = <<>>
  /\ atEOF' = FALSE
  /\ lineNum' = 0
  /\ processedCounts' = [c \in CategoryNames |-> 0]
  /\ result' = Running
  /\ closeCalls' = 0
  /\ UNCHANGED << prefix, chrNames, inputState, disk >>

NextTwice == Next \/ Rerun

SpecTwice == Init /\ [][NextTwice]_vars

\* ------------------------------------------------ vocabulary of the claims
\* the complete lines of a file content, without their newlines
RECURSIVE SplitFrom(_, _, _)
SplitFrom(s, i, cur) ==
  IF i > Len(s) THEN <<>>
  ELSE IF s[i] = LF THEN <<cur>> \o SplitFrom(s, i + 1, <<>>)
  ELSE SplitFrom(s, i + 1, Append(cur, s[i]))

CompleteLines(s) == SplitFrom(s, 1, <<>>)

\* a content that is empty or ends with a newline
EndsClean(s) == s = <<>> \/ s[Len(s)] = LF

RECURSIVE IsSubseq(_, _)
IsSubseq(a, b) ==
  IF a = <<>> THEN TRUE
  ELSE IF b = <<>> THEN FALSE
  ELSE IF Head(a) = Head(b) THEN IsSubseq(Tail(a), Tail(b))
  ELSE IsSubseq(a, Tail(b))

Count(seq, x) == Cardinality({i \in DOMAIN seq : seq[i] = x})

RECURSIVE SumCount(_, _)
SumCount(names, x) ==
  IF names = {} THEN 0
  ELSE LET n == CHOOSE m \in names : TRUE
       IN  Count(CompleteLines(disk[n]), x) + SumCount(names \ {n}, x)

\* the lines of the input consumed so far, byte for byte
InputLines == [i \in DOMAIN input |-> RawLine(input[i])]

NonBlankInputLines == SelectSeq(InputLines, LAMBDA l : l # <<>>)

\* the lines the scanner handed to the loop that were not empty
RecordsOf(chunks) ==
  SelectSeq([i \in DOMAIN chunks |-> ScanLines(chunks[i])],
            LAMBDA l : l # <<>>)

Delivered(chunks) ==
  RecordsOf(SelectSeq(chunks, LAMBDA c : Len(RawLine(c)) < MaxTokenSize))

Records == Delivered(input)

\* the files this run created
OutputNames == {handles[i].name : i \in DOMAIN handles}

\* the destination category the specification gives a record
SpecCategory(line) ==
  LET g == GjsonGet(line)
  IN  IF g.exists /\ g.str \in {chrNames[i] : i \in DOMAIN chrNames}
        THEN g.str ELSE "unknown_chr"

\* the file of a category, as the specification names it
SpecFile(c) == prefix \o "_" \o c \o ".jsonl"

\* ProcessFile has returned nil
Succeeded == pc = "exit" /\ result.kind = "nil"

\* ---------------------------------------------------------------- claims
\* C1 (as claimed): when ProcessFile returns success, every output file
\* consists of complete lines, every non-blank input line occurs in the
\* output files exactly as often as in the input, with its bytes unchanged,
\* and the output files hold as many lines as the input has non-blank lines.
C1_Partition ==
  Succeeded =>
    /\ \A n \in OutputNames : EndsClean(disk[n])
    /\ \A l \in UNION {Range(CompleteLines(disk[n])) : n \in OutputNames}
                  \cup Range(NonBlankInputLines) :
         SumCount(OutputNames, l) = Count(NonBlankInputLines, l)

\* C2: in every state, the complete lines of every output file are, in
\* their order, a subsequence of the records read from the input so far.
C2_OrderPreserved ==
  \A n \in OutputNames : IsSubseq(CompleteLines(disk[n]), Records)

\* C2 witness: the catch-all file holds two different records in input
\* order, read with a record of another category between them.
C2_Witness ==
  /\ Succeeded
  /\ chrNames = <<"chr1", "chr2">>
  /\ input = << <<"z", "x", "x", LF>>, <<"a", LF>>, <<"x", LF>> >>
  /\ disk[SpecFile("unknown_chr")] = <<"z", "x", "x", LF, "x", LF>>
  /\ disk[SpecFile("chr1")] = <<"a", LF>>

\* the chunk consumed by the step, when the step consumed one
NewChunk == input'[Len(input')]

\* a step in which the scanner handed a line to the loop
ReadsLine ==
  Len(input') = Len(input) + 1 /\ Len(RawLine(NewChunk)) < MaxTokenSize

\* what a writer's file holds followed by what the writer still buffers
Stream(c) == disk[handles[outputWriters[c].h].name] \o outputWriters[c].buf

\* the same after the step
StreamNext(c) ==
  disk'[handles'[outputWriters'[c].h].name] \o outputWriters'[c].buf

\* C3: a step that reads a non-blank record changes only the stream of one
\* category: the record's key when the field was found and the key is
\* declared, the catch-all otherwise.  That stream grows by the record and a
\* newline, or by a prefix of them when the write fails; no other writer and
\* no other file changes.
C3_Routing ==
  [][ (ReadsLine /\ ScanLines(NewChunk) # <<>>) =>
        LET line == ScanLines(NewChunk)
            c == SpecCategory(line)
            n == handles[outputWriters[c].h].name
        IN  /\ c \in DOMAIN outputWriters
            /\ \A k \in DOMAIN outputWriters \ {c} :
                 outputWriters'[k] = outputWriters[k]
            /\ \A m \in DOMAIN disk \ {n} : disk'[m] = disk[m]
            /\ \E k \in 0..(Len(line) + 1) :
                 StreamNext(c) = Stream(c) \o Take(Append(line, LF), k)
            /\ result' = result
                 => StreamNext(c) = Stream(c) \o Append(line, LF)
    ]_vars

\* C3 witness: a record with a declared key, one with an undeclared key and
\* one without the field have been routed.
C3_Witness ==
  /\ Succeeded
  /\ chrNames = <<"chr1", "chr2">>
  /\ input = << <<"a", LF>>, <<"z", "x", "x", LF>>, <<"x", LF>> >>
  /\ Stream("chr1") = <<"a", LF>>
  /\ Stream("chr2") = <<>>
  /\ Stream("unknown_chr") = <<"z", "x", "x", LF, "x", LF>>

\* the 3-line input of the end-to-end scenario: keys chr1, chr2 and no key
ScenarioInput == << <<"a", LF>>, <<"b", LF>>, <<"x", LF>> >>

Scenario ==
  /\ prefix = "out"
  /\ chrNames = <<"chr1", "chr2">>
  /\ input = ScenarioInput
  /\ result.kind \in {"running", "nil"}

\* InitializeOutputFiles has returned nil
Initialized ==
  pc \in {"open", "scan", "deferred", "exit"}
    /\ result.kind \notin {"missing", "create"}

\* the stream of the file with a given name
StreamOfFile(n) ==
  LET c == CHOOSE k \in DOMAIN outputWriters :
             handles[outputWriters[k].h].name = n
  IN  Stream(c)

\* C4 (as claimed): every destination is named <prefix>_<category>.jsonl and
\* the catch-all destination is <prefix>_unknown.jsonl.
C4_Original ==
  Initialized =>
    /\ \A c \in DOMAIN outputFiles \ {UnknownChr} :
         handles[outputFiles[c]].name = prefix \o "_" \o c \o ".jsonl"
    /\ handles[outputFiles[UnknownChr]].name = prefix \o "_unknown.jsonl"

\* C4 (amended): every destination is named <prefix>_<category>.jsonl and
\* the catch-all destination is <prefix>_unknown_chr.jsonl; in the scenario
\* line 1 is written to out_chr1.jsonl, line 2 to out_chr2.jsonl and line 3
\* to out_unknown_chr.jsonl.
C4_Naming ==
  /\ \A i \in DOMAIN handles :
       \E c \in Range(chrNames) \cup {"unknown_chr"} :
         handles[i].name = prefix \o "_" \o c \o ".jsonl"
  /\ \A c \in DOMAIN outputFiles :
       handles[outputFiles[c]].name = prefix \o "_" \o c \o ".jsonl"
  /\ Initialized =>
       /\ "unknown_chr" \in DOMAIN outputFiles
       /\ handles[outputFiles["unknown_chr"]].name
            = prefix \o "_unknown_chr.jsonl"
  /\ Scenario =>
       /\ {handles[i].name : i \in DOMAIN handles}
            = {"out_chr1.jsonl", "out_chr2.jsonl", "out_unknown_chr.jsonl"}
       /\ StreamOfFile("out_chr1.jsonl") = <<"a", LF>>
       /\ StreamOfFile("out_chr2.jsonl") = <<"b", LF>>
       /\ StreamOfFile("out_unknown_chr.jsonl") = <<"x", LF>>

\* C4 witness: the scenario has run to its end and the three files hold
\* their lines.
C4_Witness ==
  /\ Scenario
  /\ pc = "exit"
  /\ disk["out_chr1.jsonl"] = <<"a", LF>>
  /\ disk["out_chr2.jsonl"] = <<"b", LF>>
  /\ disk["out_unknown_chr.jsonl"] = <<"x", LF>>

\* the counts are those of the records recs, the last of which is not
\* counted when its write failed
CountsAreRecords(counts, recs, res) ==
  \A c \in DOMAIN counts :
    counts[c] =
      Cardinality({i \in DOMAIN recs : SpecCategory(recs[i]) = c})
        - (IF res.kind \in {"write", "newline", "panic"}
              /\ SpecCategory(recs[Len(recs)]) = c
             THEN 1 ELSE 0)

C6_AllCreated ==
  Initialized =>
    \A c \in Range(chrNames) \cup {"unknown_chr"} :
      /\ c \in DOMAIN outputFiles
      /\ LET n == handles[outputFiles[c]].name
         IN  /\ n \in DOMAIN disk
             /\ (pc = "exit" /\ \A r \in Range(Records) : SpecCategory(r) # c)
                  => disk[n] = <<>>

\* C6 witness: the run is over, out_chr1.jsonl, which held older content,
\* got no record and is empty, and out_chr2.jsonl got one.
C6_Witness ==
  /\ Succeeded
  /\ chrNames = <<"chr1", "chr2">>
  /\ input = << <<"b", LF>> >>
  /\ disk["out_chr1.jsonl"] = <<>>
  /\ disk["out_chr2.jsonl"] = <<"b", LF>>
  /\ disk["out_unknown_chr.jsonl"] = <<>>

\* every handle the run opened is closed
NoneOpen == \A i \in DOMAIN handles : ~handles[i].open

\* every writer of the map has been flushed, or has failed
AllFlushed ==
  \A c \in DOMAIN outputWriters :
    outputWriters[c].buf = <<>> \/ outputWriters[c].err

\* C7 (as claimed): when creating a destination fails, no output handle is
\* open when the error is returned, every writer is flushed, and the files
\* created before the failure exist.
C7_InitCleanup ==
  (pc = "exit" /\ result.kind = "create") =>
    /\ NoneOpen
    /\ AllFlushed
    /\ \A i \in DOMAIN handles : handles[i].name \in DOMAIN disk

\* C8 (as claimed): on every path out of ProcessFile, CloseAllFiles has run
\* exactly once, every writer is flushed and no output handle opened during
\* the run is still open.
C8_CleanupOnEveryPath ==
  (pc = "exit" /\ result.kind # "missing") =>
    /\ closeCalls = 1
    /\ AllFlushed
    /\ NoneOpen

\* the destination files as they were before the run
DiskBefore == [n \in {SpecFile(c) : c \in Preexisting} |-> Stale]

\* C9 (as claimed): when the input path is missing or cannot be opened, the
\* run fails and no destination file has been created or truncated.
C9_ConfigErrorCreatesNothing ==
  (pc = "exit" /\ inputState \in {"missing", "unreadable"}) =>
    /\ result.kind \notin {"running", "nil"}
    /\ result.kind \in {"missing", "open"} =>
         handles = <<>> /\ disk = DiskBefore

WriteError == {"write", "newline"}

\* C10: a write that fails while a record is written makes ProcessFile
\* return an error; after that no line is read, nothing more is handed to a
\* writer, and the files only grow by what the cleanup flushes; in the
\* failing step no other file changes; and at the end CloseAllFiles has run,
\* with every writer of the map flushed and every file of the map closed.
C10_WriteErrorFatal ==
  [][ /\ (ReadsLine /\ \E c \in DOMAIN outputWriters :
                         outputWriters'[c].err /\ ~outputWriters[c].err)
           => /\ result'.kind \in WriteError
              /\ pc' = "deferred"
              /\ \E c \in DOMAIN outputWriters :
                   LET n == handles[outputWriters[c].h].name
                   IN  /\ IsPrefix(disk[n], disk'[n])
                       /\ \A m \in DOMAIN disk \ {n} : disk'[m] = disk[m]
      /\ result.kind \in WriteError
           => /\ UNCHANGED << input, lineNum, processedCounts, result >>
              /\ \A c \in DOMAIN outputWriters : StreamNext(c) = Stream(c)
              /\ \A n \in DOMAIN disk :
                   n \in DOMAIN disk' /\ IsPrefix(disk[n], disk'[n])
      /\ (pc' = "exit" /\ result'.kind \in WriteError)
           => /\ closeCalls' = 1
              /\ \A c \in DOMAIN outputFiles' : ~handles'[outputFiles'[c]].open
              /\ \A c \in DOMAIN outputWriters' :
                   outputWriters'[c].buf = <<>> \/ outputWriters'[c].err
    ]_vars

\* C10 witness: the write of the second record failed after one byte, the
\* run ended with that error, and the cleanup flushed the first record to
\* the other file.
C10_Witness ==
  /\ pc = "exit"
  /\ result = [kind |-> "write", line |-> 2]
  /\ input = << <<"a", LF>>, <<"z", "x", "x", LF>> >>
  /\ closeCalls = 1
  /\ disk[SpecFile("chr1")] = <<"a", LF>>
  /\ disk[SpecFile("unknown_chr")] = <<"z">>

\* what the file of category c holds when the records recs have all been
\* written and flushed
RECURSIVE Expected(_, _)
Expected(recs, c) ==
  IF recs = <<>> THEN <<>>
  ELSE IF SpecCategory(Head(recs)) = c
         THEN Append(Head(recs), LF) \o Expected(Tail(recs), c)
         ELSE Expected(Tail(recs), c)

\* the step consumed a line that does not fit into the scanner's buffer
ReadsOverLong ==
  Len(input') = Len(input) + 1 /\ Len(RawLine(NewChunk)) >= MaxTokenSize

\* the input ends with such a line
EndsOverLong ==
  input # <<>> /\ Len(RawLine(input[Len(input)])) >= MaxTokenSize

\* C11: a line that does not fit into the scanner's buffer makes ProcessFile
\* return an error; the step hands nothing to any writer, no line is read
\* after it, and no writer receives anything after it; at the end every
\* writer of the map has been flushed, and every file whose writes did not
\* fail holds exactly the records that preceded the line.
C11_OversizedHardStop ==
  [][ /\ ReadsOverLong =>
           /\ result'.kind = "scan"
           /\ pc' = "deferred"
           /\ UNCHANGED << disk, outputWriters, processedCounts >>
      /\ EndsOverLong =>
           /\ UNCHANGED << input, lineNum, processedCounts, result >>
           /\ \A c \in DOMAIN outputWriters : StreamNext(c) = Stream(c)
      /\ (EndsOverLong /\ pc' = "exit") =>
           \A c \in DOMAIN outputWriters' :
             LET w == outputWriters'[c]
                 content == disk'[handles'[w.h].name]
             IN  /\ w.buf = <<>> \/ w.err
                 /\ IsPrefix(content, Expected(Delivered(input), c))
                 /\ ~w.err => content = Expected(Delivered(input), c)
    ]_vars

\* C11 witness: a record, then a line that is too long; the run ended with
\* the scan error and the cleanup flushed the record.
C11_Witness ==
  /\ pc = "exit"
  /\ result.kind = "scan"
  /\ input = << <<"a", LF>>, Append(OverLong, LF) >>
  /\ disk[SpecFile("chr1")] = <<"a", LF>>
  /\ \A c \in DOMAIN outputWriters : outputWriters[c].buf = <<>>

\* C12 (as claimed): a second run with the same input, prefix and categories
\* that also ends with success leaves every file with the content it had
\* after the first run.
C12_Idempotent ==
  (run = 2 /\ Succeeded) => disk = firstDisk

\* C13 (as claimed): when ProcessFile returns nil, every byte handed to a
\* writer has reached its file: no writer holds bytes or an error, and each
\* file holds all the records of its category.
C13_SuccessMeansDelivered ==
  Succeeded =>
    \A c \in DOMAIN outputWriters :
      /\ outputWriters[c].buf = <<>>
      /\ ~outputWriters[c].err
      /\ disk[handles[outputWriters[c].h].name] = Expected(Records, c)

\* C14 (as claimed): after InitializeOutputFiles every handle it opened is
\* held by exactly one map entry and no two handles refer to the same file,
\* and at the end every handle that was opened is closed.
C14_ExclusiveOwnership ==
  Initialized =>
    /\ \A i \in DOMAIN handles :
         Cardinality({c \in DOMAIN outputFiles : outputFiles[c] = i}) = 1
    /\ \A i, j \in DOMAIN handles :
         handles[i].name = handles[j].name => i = j
    /\ pc = "exit" => NoneOpen

\* C15 (as claimed): an error returned while scanning or writing reports the
\* 1-based number of the line that caused it: the record being written, the
\* line that is too long, the line that could not be read.
C15_ErrorLineNumber ==
  /\ result.kind \in WriteError => result.line = Len(input)
  /\ (result.kind = "scan" /\ EndsOverLong) => result.line = Len(input)
  /\ (result.kind = "scan" /\ ~EndsOverLong /\ ~atEOF)
       => result.line = Len(input) + 1

\* every declared category and the catch-all has a map entry with an open
\* handle on an existing file
AllDestinationsOpen ==
  \A c \in Range(chrNames) \cup {"unknown_chr"} :
    /\ c \in DOMAIN outputFiles
    /\ handles[outputFiles[c]].open
    /\ handles[outputFiles[c]].name \in DOMAIN disk

\* C16: the input is opened, and a line is read, only when all destinations
\* have been created; when a creation fails the input is never opened and
\* nothing is read; CloseAllFiles hands no record to a writer, it only moves
\* buffered bytes to the files, and once it has run no writer and no file
\* changes.
C16_PhaseOrder ==
  [][ /\ (inputHandle' = "open" \/ Len(input') > Len(input))
           => AllDestinationsOpen
      /\ Len(input') > Len(input) => inputHandle = "open"
      /\ result'.kind = "create"
           => inputHandle' = "none" /\ input' = <<>> /\ lineNum' = 0
      /\ closeCalls' > closeCalls
           => /\ UNCHANGED << input, lineNum, processedCounts >>
              /\ \A c \in DOMAIN outputWriters : StreamNext(c) = Stream(c)
      /\ closeCalls >= 1 => UNCHANGED << disk, outputWriters, input >>
    ]_vars

\* C16 witness: the run went through the three phases: destinations
\* created, lines read and written, everything closed.
C16_Witness ==
  /\ pc = "exit"
  /\ closeCalls = 1
  /\ inputHandle = "closed"
  /\ Len(handles) = 3
  /\ NoneOpen
  /\ input = << <<"b", LF>>, <<"a">> >>
  /\ disk[SpecFile("chr2")] = <<"b", LF>>
  /\ disk[SpecFile("chr1")] = <<"a", LF>>

\* the keys a record can carry
AnyKeys == CategoryNames \cup {"chrZZZ", ""}

\* C17: while lines are scanned, the writer selected for any key, found or
\* not, declared or not, is an entry of the map, as is the one
\* GetOutputWriter returns for any name; the catch-all entry is present, the
\* map does not change between two rounds of the loop, and no nil writer is
\* ever used.
C17_WriterPresent ==
  [][ /\ pc = "scan" =>
           /\ "unknown_chr" \in DOMAIN outputWriters
           /\ \A key \in AnyKeys, found \in BOOLEAN :
                /\ GetOutputWriter(outputWriters, key) \in DOMAIN outputWriters
                /\ GetOutputWriter(outputWriters, RouteKey(key, found, chrSet))
                     \in DOMAIN outputWriters
           /\ DOMAIN outputWriters' = DOMAIN outputWriters
           /\ outputFiles' = outputFiles
           /\ \A c \in DOMAIN outputWriters :
                outputWriters'[c].h = outputWriters[c].h
      /\ result'.kind # "panic"
    ]_vars

\* C17 witness: two records with keys that are not declared, one of them
\* naming a category of another run, were written through the catch-all
\* entry, and the loop goes on.
C17_Witness ==
  /\ pc = "scan"
  /\ chrNames = <<"chr2">>
  /\ input = << Append(BigRecord, LF), <<"a", LF>> >>
  /\ Stream("unknown_chr") = Append(BigRecord, LF) \o <<"a", LF>>
  /\ Stream("chr2") = <<>>
====
